---- MODULE Spec2Model ----
(***************************************************************************)
(* Session middleware of nuxt-session (src/src/types.ts, lines 166-360).   *)
(*                                                                         *)
(* A session object is a JavaScript object: an ORDERED list of key/value   *)
(* pairs (insertion order), because JSON.stringify, and therefore hash(),  *)
(* depends on that order.  Ids, timestamps and payload values are          *)
(* integers.  Time is counted in ticks, TicksPerSec ticks to the second,   *)
(* because dayjs().diff(..., 'seconds') truncates to whole seconds.        *)
(***************************************************************************)
EXTENDS Integers, Sequences, FiniteSets, TLC

\* ------------------------------------------------------------------ bounds
MaxTime == 4          \* the last tick at which a request arrives
MaxIds == 2           \* nanoid() is called at most this many times
MaxOps == 2           \* handler operations per request
MaxRequests == 3      \* requests served in one run
MaxExpiry == 1        \* largest finite expiryInSeconds tried
MaxConcOps == 1       \* handler operations per request, concurrent requests
TicksPerSec == 2      \* clock resolution: ticks per second

\* --------------------------------------------------------------- constants
Requests == {1}                    \* request slots
PayloadKeys == {"foo"}             \* keys a handler may set
Values == {1}                      \* values a handler may store
Infinite == -1                     \* expiryInSeconds: false
EmptyId == 0                       \* the empty string ''
UndefId == -1                      \* undefined (no cookie, deleted context id)
ForgedId == 99                     \* a cookie value the server never issued
NoExpires == -1                    \* cookie without an Expires attribute
Ids == 1..MaxIds

\* ev               the event of each request: context, response cookies,
\*                  the middleware's closure variables, position (pc)
\* store            the session storage: id -> stored session
\* now              the clock, in ticks
\* nextId           the next id nanoid() returns (ids are never repeated)
\* expiryInSeconds  SessionOptions.expiryInSeconds (Infinite for false)
\* rolling          SessionOptions.rolling
\* dead             history: ids whose record destroy()/regenerate() removed
\* served           history: the number of requests received
VARIABLES served, ev, store, now, nextId, expiryInSeconds, rolling, dead

vars == <<served, ev, store, now, nextId, expiryInSeconds, rolling, dead>>

\* ------------------------------------------------- JavaScript object model
Has(s, k) == \E i \in 1..Len(s) : s[i][1] = k

Get(s, k) == s[CHOOSE i \in 1..Len(s) : s[i][1] = k][2]

\* s[k] = v : an existing key keeps its position, a new key is appended
Put(s, k, v) ==
  IF Has(s, k)
  THEN [i \in 1..Len(s) |-> IF s[i][1] = k THEN <<k, v>> ELSE s[i]]
  ELSE Append(s, <<k, v>>)

\* delete s[k]
Del(s, k) ==
  LET F[i \in 0..Len(s)] ==
        IF i = 0 THEN <<>>
        ELSE IF s[i][1] = k THEN F[i - 1] ELSE Append(F[i - 1], s[i])
  IN F[Len(s)]

\* { ...s } : a shallow copy keeps keys, values and order
Spread(hasSession, s) == IF hasSession THEN s ELSE <<>>

\* !x for an id-like value
Falsy(id) == id \in {EmptyId, UndefId}

PayloadOf(s) == {k \in PayloadKeys : Has(s, k)}

\* ------------------------------------------------------------ the storage
getStorageSession(st, key) ==
  IF key \in DOMAIN st THEN [found |-> TRUE, rec |-> st[key]]
  ELSE [found |-> FALSE, rec |-> <<>>]

\* unstorage normalises a missing key (undefined) to the empty key
StoreKey(key) == IF Falsy(key) THEN EmptyId ELSE key

setStorageSession(st, key, session) ==
  [k \in (DOMAIN st) \cup {StoreKey(key)} |->
     IF k = StoreKey(key) THEN session ELSE st[k]]

dropStorageSession(st, key) == [k \in (DOMAIN st) \ {key} |-> st[k]]

\* ------------------------------------------------------------ the cookies
ClearCookie == [value |-> EmptyId, expires |-> NoExpires, clear |-> TRUE]

safeSetCookieNoExpiry(e, value, createdAt) ==
  [e EXCEPT !.setCookies = Append(@,
     [value |-> value, expires |-> NoExpires, clear |-> FALSE])]

safeSetCookie(e, value, createdAt) ==
  LET expirationDate == IF expiryInSeconds # Infinite
                        THEN createdAt + expiryInSeconds * TicksPerSec
                        ELSE NoExpires
  IN [e EXCEPT !.setCookies = Append(@,
        [value |-> value, expires |-> expirationDate, clear |-> FALSE])]

deleteCookie(e) == [e EXCEPT !.setCookies = Append(@, ClearCookie)]

\* now.diff(dayjs(createdAt), 'seconds') > sessionExpiryInSeconds
DiffSeconds(t, createdAt) == (t - createdAt) \div TicksPerSec

SessionExpired(session, sessionExpiryInSeconds, t) ==
  DiffSeconds(t, Get(session, "createdAt")) > sessionExpiryInSeconds

getCurrentSessionId(e) == e.cookie


\* ------------------------------------------------------- a request's event
\* The H3Event of one request with the closure variables of the middleware.
\* ops, last, fresh and setCalls record what happened (history only).
\* error is how a failed storage call surfaced: "fatal" is the error thrown
\* by the middleware's catch block, "rejected" a rejection handed to the
\* handler that awaited destroy()/regenerate(), "unhandled" a rejection of
\* the 'finish' listener's promise, which nothing awaits.
IdleEvent ==
  [pc |-> "idle", cookie |-> UndefId,
   sessionId |-> UndefId, hasSession |-> FALSE, session |-> <<>>,
   setCookies |-> <<>>,
   isInit |-> TRUE, isTouch |-> FALSE, isReNew |-> FALSE,
   preSessionId |-> UndefId, preSessionHash |-> [def |-> FALSE, str |-> <<>>],
   postSessionId |-> UndefId, postSessionHash |-> [def |-> FALSE, str |-> <<>>],
   opsPre |-> {}, opsPost |-> {}, last |-> "none", fresh |-> {},
   setCalls |-> 0, nops |-> 0, error |-> "none"]

\* typeof shape === 'object' && !!shape && 'id' in shape && 'createdAt' in shape
isSession(found, shape) == found /\ Has(shape, "id") /\ Has(shape, "createdAt")

\* sha1 of JSON.stringify(session): the pairs in insertion order
hash(session) == [def |-> TRUE, str |-> session]

deleteSessionKeepRecord(e, st) ==
  [e |-> [deleteCookie(e) EXCEPT !.sessionId = UndefId, !.hasSession = FALSE,
                                 !.session = <<>>],
   st |-> st]

deleteSession(e, st) ==
  LET currentSessionId == getCurrentSessionId(e)
      st1 == IF ~Falsy(currentSessionId)
             THEN dropStorageSession(st, currentSessionId) ELSE st
      e1 == deleteCookie(e)
  IN [e |-> [e1 EXCEPT !.sessionId = UndefId, !.hasSession = FALSE,
                       !.session = <<>>],
      st |-> st1]

createSession(e, hasInit, initBody, id, t) ==
  LET s0 == IF hasInit THEN initBody ELSE e.session
  IN [e EXCEPT !.hasSession = TRUE, !.sessionId = id,
               !.session = Put(Put(s0, "id", id), "createdAt", t),
               !.fresh = @ \cup {id}]

reNewSessionEmptyBody(e, st, id, t) ==
  LET d == deleteSession(e, st)
  IN [e |-> createSession(d.e, TRUE, <<>>, id, t), st |-> d.st]

reNewSessionPersist(e, st, id, t) ==
  LET body == Spread(e.hasSession, e.session)
      d == deleteSession(e, st)
      c == createSession(d.e, TRUE, body, id, t)
  IN [e |-> c, st |-> setStorageSession(d.st, c.sessionId, c.session)]

reNewSession(e, st, id, t) ==
  LET body == Spread(e.hasSession, e.session)
      d == deleteSession(e, st)
  IN [e |-> createSession(d.e, TRUE, body, id, t), st |-> d.st]

getSession(e, st, t) ==
  LET existingSessionId == getCurrentSessionId(e)
      got == getStorageSession(st, existingSessionId)
      none == [found |-> FALSE, session |-> <<>>, e |-> e, st |-> st]
  IN IF Falsy(existingSessionId) THEN none
     ELSE IF ~isSession(got.found, got.rec) THEN none
     ELSE IF expiryInSeconds # Infinite
             /\ SessionExpired(got.rec, expiryInSeconds, t)
          THEN LET d == deleteSession(e, st)
               IN [found |-> FALSE, session |-> <<>>, e |-> d.e, st |-> d.st]
          ELSE [found |-> TRUE, session |-> got.rec, e |-> e, st |-> st]

\* lines 281-322: resolution, context seeding, the pre-handler snapshot
eventHandler(c, st, t) ==
  LET e0 == [IdleEvent EXCEPT !.pc = "handling", !.cookie = c]
      g == getSession(e0, st, t)
      e1 == IF g.found
            THEN [g.e EXCEPT !.sessionId = Get(g.session, "id"),
                             !.hasSession = TRUE, !.session = g.session,
                             !.isInit = FALSE]
            ELSE [g.e EXCEPT !.sessionId = EmptyId,
                             !.hasSession = TRUE, !.session = <<>>,
                             !.isInit = TRUE]
  IN [e |-> [e1 EXCEPT !.preSessionId = e1.sessionId,
                       !.preSessionHash = hash(e1.session)],
      st |-> g.st]

isDestory(e) == Falsy(e.sessionId) /\ ~e.hasSession

isModifiedAlways(e) == TRUE

isModified(e) ==
  \/ e.preSessionId # e.postSessionId
  \/ e.preSessionHash # e.postSessionHash

onHeadersNoRolling(e, id, t) ==
  IF isDestory(e) THEN e
  ELSE LET e1 == [e EXCEPT !.postSessionId = e.sessionId,
                           !.postSessionHash = hash(e.session)]
       IN IF e1.isInit
          THEN IF isModified(e1) \/ e1.isTouch
               THEN LET e2 == createSession(e1, FALSE, <<>>, id, t)
                    IN safeSetCookie(e2, e2.sessionId, Get(e2.session, "createdAt"))
               ELSE e1
          ELSE IF \/ (expiryInSeconds # Infinite /\ (isModified(e1) \/ e1.isTouch))
                  \/ (e1.isReNew /\ (isModified(e1) \/ e1.isTouch))
               THEN LET e2 == [e1 EXCEPT !.session = Put(@, "createdAt", t)]
                    IN safeSetCookie(e2, e2.sessionId, Get(e2.session, "createdAt"))
               ELSE e1

onHeadersNoReNew(e, id, t) ==
  IF isDestory(e) THEN e
  ELSE LET e1 == [e EXCEPT !.postSessionId = e.sessionId,
                           !.postSessionHash = hash(e.session)]
       IN IF e1.isInit
          THEN IF isModified(e1) \/ e1.isTouch
               THEN LET e2 == createSession(e1, FALSE, <<>>, id, t)
                    IN safeSetCookie(e2, e2.sessionId, Get(e2.session, "createdAt"))
               ELSE e1
          ELSE IF \/ rolling
                  \/ (expiryInSeconds # Infinite /\ (isModified(e1) \/ e1.isTouch))
               THEN LET e2 == [e1 EXCEPT !.session = Put(@, "createdAt", t)]
                    IN safeSetCookie(e2, e2.sessionId, Get(e2.session, "createdAt"))
               ELSE e1

\* lines 324-342: the header-emission callback
onHeaders(e, id, t) ==
  IF isDestory(e) THEN e
  ELSE LET e1 == [e EXCEPT !.postSessionId = e.sessionId,
                           !.postSessionHash = hash(e.session)]
       IN IF e1.isInit
          THEN IF isModified(e1) \/ e1.isTouch
               THEN LET e2 == createSession(e1, FALSE, <<>>, id, t)
                    IN safeSetCookie(e2, e2.sessionId, Get(e2.session, "createdAt"))
               ELSE e1
          ELSE IF \/ rolling
                  \/ (expiryInSeconds # Infinite /\ (isModified(e1) \/ e1.isTouch))
                  \/ (e1.isReNew /\ (isModified(e1) \/ e1.isTouch))
               THEN LET e2 == [e1 EXCEPT !.session = Put(@, "createdAt", t)]
                    IN safeSetCookie(e2, e2.sessionId, Get(e2.session, "createdAt"))
               ELSE e1

finishOnlyModified(e, st) ==
  IF isDestory(e) THEN [wrote |-> FALSE, st |-> st]
  ELSE IF isModified(e)
       THEN [wrote |-> TRUE, st |-> setStorageSession(st, e.sessionId, e.session)]
       ELSE [wrote |-> FALSE, st |-> st]

finishMerge(e, st) ==
  LET old == getStorageSession(st, StoreKey(e.sessionId))
      M[i \in 0..Len(e.session)] ==
        IF i = 0 THEN old.rec
        ELSE Put(M[i - 1], e.session[i][1], e.session[i][2])
  IN IF isDestory(e) THEN [wrote |-> FALSE, st |-> st]
     ELSE IF isModified(e) \/ e.isTouch
          THEN [wrote |-> TRUE,
                st |-> setStorageSession(st, e.sessionId, M[Len(e.session)])]
          ELSE [wrote |-> FALSE, st |-> st]

\* lines 344-356: the body-completion callback
finish(e, st) ==
  IF isDestory(e) THEN [wrote |-> FALSE, st |-> st]
  ELSE IF e.isInit
       THEN IF isModified(e) \/ e.isTouch
            THEN [wrote |-> TRUE,
                  st |-> setStorageSession(st, e.sessionId, e.session)]
            ELSE [wrote |-> FALSE, st |-> st]
       ELSE IF isModified(e) \/ e.isTouch
            THEN [wrote |-> TRUE,
                  st |-> setStorageSession(st, e.sessionId, e.session)]
            ELSE [wrote |-> FALSE, st |-> st]


\* ----------------------------------------------------------------- actions
InFlight(r) == ev[r].pc \in {"handling", "headers"}

CookieChoices == {UndefId, ForgedId} \cup (1..(nextId - 1))

\* what the handler did, and in which phase of the response
Note(e, op) ==
  [e EXCEPT !.nops = @ + 1,
            !.opsPre = IF e.pc = "handling" THEN @ \cup {op} ELSE @,
            !.opsPost = IF e.pc = "headers" THEN @ \cup {op} ELSE @]

Init ==
  /\ ev = [r \in Requests |-> IdleEvent]
  /\ store = <<>>
  /\ now = 0
  /\ nextId = 1
  /\ expiryInSeconds \in {Infinite} \cup (1..MaxExpiry)
  /\ rolling \in BOOLEAN
  /\ dead = {}
  /\ served = 0

\* A request arrives at time t while no other is being processed, and the
\* middleware runs.  Time passes between requests; a request takes none.
Start(r, c, t) ==
  /\ \A q \in Requests : ~InFlight(q)
  /\ served < MaxRequests /\ served' = served + 1
  /\ now' = t
  /\ LET h == eventHandler(c, store, t)
     IN /\ ev' = [q \in Requests |-> IF q = r THEN h.e ELSE IdleEvent]
        /\ store' = h.st
  /\ UNCHANGED <<nextId, expiryInSeconds, rolling, dead>>

\* event.context.session[k] = v
SetKey(r, k, v) ==
  /\ InFlight(r) /\ ev[r].nops < MaxOps
  /\ ev[r].hasSession
  /\ ev' = [ev EXCEPT ![r] = [Note(@, "mutate") EXCEPT !.session = Put(@, k, v)]]
  /\ UNCHANGED <<store, now, nextId, expiryInSeconds, rolling, dead, served>>

\* delete event.context.session[k]
DelKey(r, k) ==
  /\ ev[r].pc = "handling" /\ ev[r].nops < MaxOps
  /\ ev[r].hasSession /\ Has(ev[r].session, k)
  /\ ev' = [ev EXCEPT ![r] = [Note(@, "mutate") EXCEPT !.session = Del(@, k)]]
  /\ UNCHANGED <<store, now, nextId, expiryInSeconds, rolling, dead, served>>

\* event.context.session = { [k]: v }, where destroy() has deleted the object
AssignSession(r, k, v) ==
  /\ InFlight(r) /\ ev[r].nops < MaxOps
  /\ ~ev[r].hasSession
  /\ ev' = [ev EXCEPT ![r] = [Note(@, "mutate") EXCEPT
                                 !.hasSession = TRUE, !.session = <<<<k, v>>>>]]
  /\ UNCHANGED <<store, now, nextId, expiryInSeconds, rolling, dead, served>>

\* sessionFn.touch()
Touch(r) ==
  /\ InFlight(r) /\ ev[r].nops < MaxOps
  /\ ev' = [ev EXCEPT ![r] = [Note(@, "touch") EXCEPT !.isTouch = TRUE]]
  /\ UNCHANGED <<store, now, nextId, expiryInSeconds, rolling, dead, served>>

\* sessionFn.destroy(); it sets a header, so it runs before the headers go out
Destroy(r) ==
  /\ ev[r].pc = "handling" /\ ev[r].nops < MaxOps
  /\ LET d == deleteSession(ev[r], store)
     IN /\ ev' = [ev EXCEPT ![r] = [Note(d.e, "destroy") EXCEPT !.last = "destroy"]]
        /\ store' = d.st
  /\ dead' = dead \cup ({ev[r].cookie} \cap DOMAIN store)
  /\ UNCHANGED <<now, nextId, expiryInSeconds, rolling, served>>

\* sessionFn.regenerate()
Regenerate(r) ==
  /\ ev[r].pc = "handling" /\ ev[r].nops < MaxOps
  /\ nextId <= MaxIds
  /\ LET n == reNewSession(ev[r], store, nextId, now)
     IN /\ ev' = [ev EXCEPT ![r] = [Note(n.e, "regenerate") EXCEPT
                                      !.isReNew = TRUE, !.last = "regenerate"]]
        /\ store' = n.st
  /\ nextId' = nextId + 1
  /\ dead' = dead \cup ({ev[r].cookie} \cap DOMAIN store)
  /\ UNCHANGED <<now, expiryInSeconds, rolling, served>>

\* the response headers are about to be written: the onHeaders callback
Headers(r) ==
  /\ ev[r].pc = "handling"
  /\ LET e == onHeaders(ev[r], nextId, now)
         used == nextId \in e.fresh
     IN /\ used => nextId <= MaxIds
        /\ ev' = [ev EXCEPT ![r] = [e EXCEPT !.pc = "headers"]]
        /\ nextId' = IF used THEN nextId + 1 ELSE nextId
  /\ UNCHANGED <<store, now, expiryInSeconds, rolling, dead, served>>

\* the response body is complete: the 'finish' callback
Finish(r) ==
  /\ ev[r].pc = "headers"
  /\ LET f == finish(ev[r], store)
     IN /\ store' = f.st
        /\ ev' = [ev EXCEPT ![r] = [@ EXCEPT !.pc = "done",
                      !.setCalls = IF f.wrote THEN @ + 1 ELSE @]]
  /\ UNCHANGED <<now, nextId, expiryInSeconds, rolling, dead, served>>

Next ==
  \/ \E r \in Requests, c \in CookieChoices, t \in now..MaxTime : Start(r, c, t)
  \/ \E r \in Requests, k \in PayloadKeys, v \in Values : SetKey(r, k, v)
  \/ \E r \in Requests, k \in PayloadKeys : DelKey(r, k)
  \/ \E r \in Requests, k \in PayloadKeys, v \in Values : AssignSession(r, k, v)
  \/ \E r \in Requests : Touch(r)
  \/ \E r \in Requests : Destroy(r)
  \/ \E r \in Requests : Regenerate(r)
  \/ \E r \in Requests : Headers(r)
  \/ \E r \in Requests : Finish(r)

Spec == Init /\ [][Next]_vars

\* ------------------------------------------------------------ observations
Finite == expiryInSeconds # Infinite

\* the Set-Cookie headers of the response that carry a session id
CookieWrites(e) == {i \in 1..Len(e.setCookies) : ~e.setCookies[i].clear}

Responded(e) == e.pc \in {"headers", "done"}

LastCookie(e) == e.setCookies[Len(e.setCookies)]

\* the record holds every payload key of the session, with the same value
HoldsPayload(rec, session) ==
  \A k \in PayloadKeys :
    Has(session, k) => Has(rec, k) /\ Get(rec, k) = Get(session, k)

\* ---------------------------------------------------------------------- C1
\* C1: a request without a cookie, finite expiry, rolling off, whose handler
\* only sets payload keys (at least one before the headers go out): the
\* response carries exactly one cookie, its value a freshly generated id and
\* its Expires the new createdAt + expiry; after body-completion the store
\* holds under that id a record with that id, that createdAt and the
\* handler's payload keys.
C1_InitCreate ==
  \A r \in Requests :
    LET e == ev[r] IN
    ( /\ Responded(e) /\ e.isInit /\ Falsy(e.cookie)
      /\ Finite /\ ~rolling
      /\ e.opsPre = {"mutate"} /\ e.opsPost \subseteq {"mutate"}
      /\ PayloadOf(e.postSessionHash.str) # {} )
    => /\ Len(e.setCookies) = 1
       /\ ~e.setCookies[1].clear
       /\ e.setCookies[1].value \in e.fresh
       /\ e.setCookies[1].value = e.sessionId
       /\ e.setCookies[1].expires
            = Get(e.session, "createdAt") + expiryInSeconds * TicksPerSec
       /\ Get(e.session, "createdAt") = now
       /\ e.pc = "done" =>
            /\ e.setCalls = 1
            /\ e.sessionId \in DOMAIN store
            /\ Get(store[e.sessionId], "id") = e.sessionId
            /\ Get(store[e.sessionId], "createdAt") = Get(e.session, "createdAt")
            /\ HoldsPayload(store[e.sessionId], e.session)
            /\ PayloadOf(store[e.sessionId]) # {}

C1_Witness ==
  \E r \in Requests :
    /\ ev[r].pc = "done" /\ ev[r].isInit /\ Falsy(ev[r].cookie)
    /\ Finite /\ ~rolling
    /\ ev[r].opsPre = {"mutate"} /\ ev[r].opsPost = {}
    /\ ev[r].sessionId \in DOMAIN store
    /\ Has(store[ev[r].sessionId], "foo")

\* ---------------------------------------------------------------------- C2
C2_Step(r) ==
  /\ Regenerate(r) =>
       /\ ev'[r].sessionId # ev[r].sessionId
       /\ ~Falsy(ev'[r].sessionId)
       /\ ev[r].hasSession => HoldsPayload(ev'[r].session, ev[r].session)
  /\ ( /\ Responded(ev'[r])
       /\ "regenerate" \in ev'[r].opsPre /\ ev'[r].last = "regenerate" )
     => /\ CookieWrites(ev'[r]) # {}
        /\ ev'[r].pc = "done" => ev'[r].setCalls = 1

\* C2: regenerate() leaves a context id different from the one before the
\* call and keeps every payload key with its value; a request that called
\* regenerate() and no destroy() after it writes a cookie at header-emission
\* and writes the store at body-completion.
C2_Regenerate == [][\A r \in Requests : C2_Step(r)]_vars

C2_Witness ==
  \E r \in Requests :
    /\ ev[r].pc = "done" /\ ~ev[r].isInit
    /\ ~Finite /\ ~rolling
    /\ ev[r].opsPre = {"regenerate"} /\ ev[r].opsPost = {}
    /\ Has(ev[r].session, "foo")
    /\ ev[r].sessionId # ev[r].preSessionId
    /\ ev[r].setCalls = 1

\* ---------------------------------------------------------------------- C3
C3_Step(r) ==
  /\ (Destroy(r) /\ ~ev[r].isInit) =>
       /\ ev[r].cookie \notin DOMAIN store'
       /\ LastCookie(ev'[r]) = ClearCookie
       /\ isDestory(ev'[r])
  /\ ( /\ Responded(ev'[r]) /\ ~ev'[r].isInit
       /\ ev'[r].opsPre = {"destroy"} /\ ev'[r].opsPost = {} )
     => /\ CookieWrites(ev'[r]) = {}
        /\ ev'[r].setCalls = 0
  /\ (ev'[r].pc = "handling" /\ ev[r].pc # "handling" /\ ev'[r].cookie \in dead)
     => ev'[r].isInit

\* C3: with requests served one after another, destroy() in an Active
\* request removes the record and emits the clearing cookie during the call;
\* the response of a request that only destroys carries no session id; and a
\* later request presenting the destroyed id starts in Init mode.
C3_Destroy == [][\A r \in Requests : C3_Step(r)]_vars

C3_Witness ==
  \E r \in Requests :
    /\ ev[r].pc = "handling" /\ ev[r].cookie \in dead /\ ev[r].isInit
    /\ ev[r].cookie \in Ids /\ ev[r].cookie \notin DOMAIN store

\* ---------------------------------------------------------------------- C4
\* C4: once the handler of an Active request has called destroy() (and no
\* regenerate() after it), the response writes no cookie and the store is
\* not written, whatever the handler does afterwards.
C4_DestroyFinal ==
  \A r \in Requests :
    ( /\ ev[r].pc = "done" /\ ~ev[r].isInit
      /\ "destroy" \in ev[r].opsPre /\ ev[r].last = "destroy" )
    => /\ CookieWrites(ev[r]) = {}
       /\ ev[r].setCalls = 0

\* ---------------------------------------------------------------------- C5
\* C5 as stated: in every configuration and mode, a request whose handler
\* only calls touch() (before the headers go out) writes a cookie at
\* header-emission and writes the store at body-completion.
C5_TouchAlways ==
  \A r \in Requests :
    ( /\ Responded(ev[r])
      /\ ev[r].opsPre = {"touch"} /\ ev[r].opsPost \subseteq {"touch"} )
    => /\ CookieWrites(ev[r]) # {}
       /\ ev[r].pc = "done" => ev[r].setCalls = 1

\* C5 amended: such a request always writes the store at body-completion;
\* it writes a cookie at header-emission exactly when it is in Init mode,
\* or rolling is on, or expiry is finite.
C5_Touch ==
  \A r \in Requests :
    ( /\ Responded(ev[r])
      /\ ev[r].opsPre = {"touch"} /\ ev[r].opsPost \subseteq {"touch"} )
    => /\ (CookieWrites(ev[r]) # {}) <=> (ev[r].isInit \/ rolling \/ Finite)
       /\ ev[r].pc = "done" =>
            /\ ev[r].setCalls = 1
            /\ StoreKey(ev[r].sessionId) \in DOMAIN store
            /\ store[StoreKey(ev[r].sessionId)] = ev[r].session

C5_Witness ==
  \E r \in Requests :
    /\ ev[r].pc = "done" /\ ~ev[r].isInit /\ ~Finite /\ ~rolling
    /\ ev[r].opsPre = {"touch"} /\ ev[r].opsPost = {}
    /\ CookieWrites(ev[r]) = {} /\ ev[r].setCalls = 1

\* ---------------------------------------------------------------------- C6
C6_Step(r) ==
  LET c == ev'[r].cookie IN
  ( /\ ev[r].pc # "handling" /\ ev'[r].pc = "handling"
    /\ Finite
    /\ c \in DOMAIN store /\ isSession(TRUE, store[c])
    /\ now' - Get(store[c], "createdAt") > expiryInSeconds * TicksPerSec )
  => /\ ev'[r].isInit
     /\ c \notin DOMAIN store'
     /\ ev'[r].setCookies = <<ClearCookie>>
     /\ ev'[r].sessionId = EmptyId /\ ev'[r].session = <<>>

\* C6: with finite expiry D, a request presenting the id of a stored session
\* whose createdAt lies more than D seconds before the resolution starts in
\* Init mode with an empty id and payload, the record deleted and the cookie
\* cleared.
C6_Expiry == [][\A r \in Requests : C6_Step(r)]_vars

\* ---------------------------------------------------------------------- C7
C7_Step(r) ==
  ( /\ rolling /\ Finite
    /\ ev[r].pc = "done" /\ ~ev[r].isInit
    /\ ev[r].opsPre = {} /\ ev[r].opsPost = {}
    /\ ev'[r].pc = "handling" /\ ev'[r].cookie = ev[r].sessionId
    /\ now' - now < expiryInSeconds * TicksPerSec )
  => ~ev'[r].isInit

\* C7: rolling on, finite expiry D: after a request that resolved a session
\* as Active and changed nothing, the next request for that session, arriving
\* less than D seconds later, resolves it as Active again.
C7_RollingAlive == [][\A r \in Requests : C7_Step(r)]_vars

\* ---------------------------------------------------------------------- C8
\* C8: rolling on: an Active request whose handler did nothing before the
\* headers went out writes a cookie for the session id, the session's
\* createdAt is the current time and the cookie's Expires is that time plus
\* expiryInSeconds (no Expires when expiry is infinite).
C8_RollingCookie ==
  \A r \in Requests :
    LET e == ev[r] IN
    (rolling /\ Responded(e) /\ ~e.isInit /\ e.opsPre = {})
    => /\ Len(e.setCookies) = 1
       /\ ~e.setCookies[1].clear
       /\ e.setCookies[1].value = e.preSessionId
       /\ e.sessionId = e.preSessionId
       /\ Get(e.session, "createdAt") = now
       /\ e.setCookies[1].expires =
            IF Finite THEN now + expiryInSeconds * TicksPerSec ELSE NoExpires

C8_Witness ==
  \E r \in Requests :
    /\ rolling /\ Finite /\ ev[r].pc = "headers" /\ ~ev[r].isInit
    /\ ev[r].opsPre = {}
    /\ Get(ev[r].preSessionHash.str, "createdAt") < now
    /\ ev[r].setCookies[1].expires = now + expiryInSeconds * TicksPerSec

\* ---------------------------------------------------------------------- C9
\* C9: a request whose handler calls no lifecycle operation and has not
\* touched the payload when the headers go out writes no cookie and does
\* not write the store, in Init mode and in Active mode with rolling off.
C9_NoChange ==
  \A r \in Requests :
    LET e == ev[r] IN
    ( /\ Responded(e) /\ e.opsPre = {} /\ e.opsPost \subseteq {"mutate"}
      /\ (e.isInit \/ ~rolling) )
    => /\ CookieWrites(e) = {}
       /\ e.setCalls = 0
       /\ e.fresh = {}
       /\ e.isInit => e.sessionId = EmptyId
       /\ ~e.isInit => /\ e.preSessionId \in DOMAIN store
                       /\ store[e.preSessionId] = e.preSessionHash.str

C9_Witness ==
  \E r \in Requests :
    /\ ev[r].pc = "done" /\ ~ev[r].isInit /\ ~rolling /\ Finite
    /\ ev[r].opsPre = {} /\ ev[r].opsPost = {"mutate"}
    /\ ev[r].session # ev[r].preSessionHash.str
    /\ ev[r].setCalls = 0

\* --------------------------------------------------------------------- C10
C10_Step(r) ==
  /\ (\E k \in DOMAIN store' : k \notin DOMAIN store \/ store'[k] # store[k])
       => /\ ev[r].pc = "headers" /\ ev'[r].pc = "done"
          /\ ev'[r].setCalls = 1
  /\ ev'[r].setCalls <= 1
  /\ ev'[r].setCalls = 1 => ev'[r].pc = "done"

\* C10: a record appears or changes in the store only in the step that
\* completes a response body, which follows header-emission and happens once
\* per request; the handler's operations never write a record.
C10_OneWrite == [][\A r \in Requests : C10_Step(r)]_vars

C10_Witness ==
  \E r \in Requests :
    /\ ev[r].pc = "done" /\ ev[r].setCalls = 1 /\ ev[r].nops = MaxOps
    /\ "regenerate" \in ev[r].opsPre /\ "touch" \in ev[r].opsPre

\* ------------------------------------------------------ concurrent requests
\* Two requests may be in flight at once; each handler performs at most
\* MaxConcOps operations.
Clients == {1, 2}

InitC ==
  /\ ev = [r \in Clients |-> IdleEvent]
  /\ store = <<>>
  /\ now = 0
  /\ nextId = 1
  /\ expiryInSeconds \in {Infinite} \cup (1..MaxExpiry)
  /\ rolling \in BOOLEAN
  /\ dead = {}
  /\ served = 0

\* A request arrives at time t, whatever the other requests are doing.
StartC(r, c, t) ==
  /\ ~InFlight(r)
  /\ served < MaxRequests /\ served' = served + 1
  /\ now' = t
  /\ LET h == eventHandler(c, store, t)
     IN /\ ev' = [ev EXCEPT ![r] = h.e]
        /\ store' = h.st
  /\ UNCHANGED <<nextId, expiryInSeconds, rolling, dead>>

Few(r) == ev[r].nops < MaxConcOps

NextC ==
  \/ \E r \in Clients, c \in CookieChoices, t \in now..MaxTime : StartC(r, c, t)
  \/ \E r \in Clients, k \in PayloadKeys, v \in Values : Few(r) /\ SetKey(r, k, v)
  \/ \E r \in Clients, k \in PayloadKeys : Few(r) /\ DelKey(r, k)
  \/ \E r \in Clients : Few(r) /\ Touch(r)
  \/ \E r \in Clients : Few(r) /\ Destroy(r)
  \/ \E r \in Clients : Few(r) /\ Regenerate(r)
  \/ \E r \in Clients : Headers(r)
  \/ \E r \in Clients : Finish(r)

SpecC == InitC /\ [][NextC]_vars

\* --------------------------------------------------------------------- C11
\* C11: when a request has created a session and sent the response cookie,
\* any other request that presents that cookie within the expiry window,
\* however soon, resolves to the same id and the same payload.
C11_ResolveAfterCreate ==
  \A q \in DOMAIN ev : \A r \in DOMAIN ev \ {q} :
    LET c == ev[q]
        e == ev[r] IN
    ( /\ Responded(c) /\ c.isInit /\ c.sessionId \in c.fresh
      /\ \E i \in CookieWrites(c) : c.setCookies[i].value = c.sessionId
      /\ e.pc = "handling" /\ e.nops = 0
      /\ e.cookie = c.sessionId
      /\ Finite => DiffSeconds(now, Get(c.session, "createdAt")) <= expiryInSeconds )
    => /\ ~e.isInit
       /\ e.sessionId = c.sessionId
       /\ HoldsPayload(e.session, c.postSessionHash.str)

\* --------------------------------------------------------- storage failures
\* getStorageSession (or the cleanup of an expired record) rejects inside
\* getSession, which the middleware awaits inside its try block (line 283):
\* the catch block throws the fatal error (line 358).
StartFail(r, c, t) ==
  /\ \A q \in Requests : ~InFlight(q)
  /\ served < MaxRequests /\ served' = served + 1
  /\ ~Falsy(c)
  /\ now' = t
  /\ ev' = [q \in Requests |->
              IF q = r THEN [IdleEvent EXCEPT !.pc = "failed", !.cookie = c,
                                              !.error = "fatal"]
              ELSE IdleEvent]
  /\ UNCHANGED <<store, nextId, expiryInSeconds, rolling, dead>>

\* dropStorageSession rejects inside deleteSession, called by the handler
\* through destroy() or regenerate() after the middleware has returned: the
\* cookie and the context are left as they were, the handler gets the
\* rejection.
DropFail(r) ==
  /\ ev[r].pc = "handling" /\ ev[r].nops < MaxOps
  /\ ~Falsy(getCurrentSessionId(ev[r]))
  /\ ev' = [ev EXCEPT ![r] = [@ EXCEPT !.nops = @ + 1, !.error = "rejected"]]
  /\ UNCHANGED <<store, now, nextId, expiryInSeconds, rolling, dead, served>>

\* setStorageSession rejects inside the 'finish' listener: no record is
\* written and nothing awaits the listener's promise.
FinishFail(r) ==
  /\ ev[r].pc = "headers"
  /\ finish(ev[r], store).wrote
  /\ ev' = [ev EXCEPT ![r] = [@ EXCEPT !.pc = "done", !.error = "unhandled"]]
  /\ UNCHANGED <<store, now, nextId, expiryInSeconds, rolling, dead, served>>

NextF ==
  \/ Next
  \/ \E r \in Requests, c \in CookieChoices, t \in now..MaxTime : StartFail(r, c, t)
  \/ \E r \in Requests : DropFail(r)
  \/ \E r \in Requests : FinishFail(r)

SpecF == Init /\ [][NextF]_vars

\* --------------------------------------------------------------------- C12
\* C12: a failed storage call, whether the get during resolution, the delete
\* inside a destroy() or regenerate() the handler calls, or the set at
\* body-completion, ends the request with the fatal error of the middleware.
C12_FailuresFatal ==
  \A r \in Requests :
    ev[r].error # "none" => ev[r].error = "fatal" /\ ev[r].pc = "failed"

\* --------------------------------------------------------------------- C13
\* C13: once destroy() or regenerate() in some request has removed the
\* record of id X, no record exists under X when every request in flight
\* has completed.
C13_StayDestroyed ==
  (\A r \in DOMAIN ev : ~InFlight(r)) => \A x \in dead : x \notin DOMAIN store

\* --------------------------------------------------------------------- C14
OnlyModifies(e) ==
  ~e.isInit /\ e.opsPre \cup e.opsPost \subseteq {"mutate", "touch"}

C14_Step(r) ==
  ( /\ ev[r].pc = "headers" /\ ev'[r].pc = "done"
    /\ ev'[r].setCalls > ev[r].setCalls
    /\ OnlyModifies(ev[r]) )
  => /\ ev[r].sessionId = ev[r].preSessionId
     /\ ev[r].sessionId \in DOMAIN store'
     /\ store'[ev[r].sessionId] = ev[r].session
     /\ \A k \in DOMAIN store' \ {ev[r].sessionId} :
          k \in DOMAIN store /\ store'[k] = store[k]

\* C14: when requests that loaded the same stored session modify it and do
\* not destroy it, every body-completion write leaves under that id exactly
\* the session object of the request that writes, whatever an earlier
\* writer stored there: the last write wins and nothing is merged.
C14_LastWriterWins == [][\A r \in DOMAIN ev : C14_Step(r)]_vars

C14_Witness ==
  \E q \in DOMAIN ev : \E r \in DOMAIN ev \ {q} :
    /\ ev[q].pc = "done" /\ ev[r].pc = "done"
    /\ OnlyModifies(ev[q]) /\ OnlyModifies(ev[r])
    /\ ev[q].preSessionId = ev[r].preSessionId
    /\ ev[q].preSessionHash = ev[r].preSessionHash
    /\ ev[q].setCalls = 1 /\ ev[r].setCalls = 1
    /\ PayloadOf(ev[q].session) # PayloadOf(ev[r].session)
    /\ store[ev[r].sessionId] = ev[r].session

\* --------------------------------------------------------------------- C15
\* the id or the content at header-emission differs from the loaded session
ChangedAtHeaders(e) ==
  \/ e.postSessionId # e.preSessionId
  \/ e.postSessionHash.str # e.preSessionHash.str

\* C15: a request that loaded a valid session and never calls destroy()
\* writes the cookie at header-emission exactly when rolling is on, or expiry
\* is finite and the session was changed or touched, or the session was
\* renewed and changed or touched; createdAt is reset to the current time
\* exactly when the cookie is written; the store is written at
\* body-completion exactly when the session was changed or touched.
C15_ActiveTable ==
  \A r \in Requests :
    LET e == ev[r]
        touchedPre == "touch" \in e.opsPre
        touched == "touch" \in e.opsPre \cup e.opsPost
        renewed == "regenerate" \in e.opsPre
        cookie == \/ rolling
                  \/ Finite /\ (ChangedAtHeaders(e) \/ touchedPre)
                  \/ renewed /\ (ChangedAtHeaders(e) \/ touchedPre)
    IN
    (Responded(e) /\ ~e.isInit /\ "destroy" \notin e.opsPre)
    => /\ cookie <=> CookieWrites(e) # {}
       /\ cookie => /\ Cardinality(CookieWrites(e)) = 1
                    /\ ~LastCookie(e).clear
                    /\ LastCookie(e).value = e.postSessionId
                    /\ Get(e.session, "createdAt") = now
       /\ (~cookie /\ ~renewed) =>
            Get(e.session, "createdAt") = Get(e.preSessionHash.str, "createdAt")
       /\ e.pc = "done" =>
            /\ (ChangedAtHeaders(e) \/ touched) <=> e.setCalls = 1
            /\ ~(ChangedAtHeaders(e) \/ touched) => e.setCalls = 0
            /\ e.setCalls = 1 => store[e.sessionId] = e.session

C15_Witness ==
  \E r \in Requests :
    /\ ev[r].pc = "done" /\ ~ev[r].isInit
    /\ ~Finite /\ ~rolling
    /\ ev[r].opsPre = {"regenerate"} /\ ev[r].opsPost = {}
    /\ CookieWrites(ev[r]) # {}
    /\ Get(ev[r].session, "createdAt") = now
    /\ now > Get(ev[r].preSessionHash.str, "createdAt")
    /\ ev[r].setCalls = 1

\* --------------------------------------------------------------------- C16
\* C16: when nothing had changed by header-emission and the handler changes
\* the session object between header-emission and body-completion, the
\* change is detected at body-completion and the session is persisted.
C16_LateMutation ==
  \A r \in Requests :
    LET e == ev[r] IN
    ( /\ e.pc = "done"
      /\ ~ChangedAtHeaders(e) /\ e.opsPre = {}
      /\ e.opsPost = {"mutate"}
      /\ PayloadOf(e.session) # PayloadOf(e.preSessionHash.str) )
    => /\ e.setCalls = 1
       /\ StoreKey(e.sessionId) \in DOMAIN store
       /\ HoldsPayload(store[StoreKey(e.sessionId)], e.session)

\* --------------------------------------------------------------------- C17
\* the key/value pairs of a session object, without their order
Pairs(s) == {s[i] : i \in 1..Len(s)}

\* C17: with rolling off, a request that loaded a valid session and whose
\* handler leaves the session object with the same keys and values (a key
\* removed and added back with the same value) is judged unmodified: no
\* cookie is written and the store is not written.
C17_OrderInsensitive ==
  \A r \in Requests :
    LET e == ev[r] IN
    ( /\ e.pc = "done" /\ ~e.isInit /\ ~rolling
      /\ e.opsPre = {"mutate"} /\ e.opsPost = {}
      /\ Pairs(e.postSessionHash.str) = Pairs(e.preSessionHash.str) )
    => /\ CookieWrites(e) = {}
       /\ e.setCalls = 0

\* --------------------------------------------------------------------- C18
\* C18: with requests served one after another, when the response of a
\* completed request has written the session cookie with value X, the store
\* holds under key X a record whose id field is X.
C18_CookieStoreAgree ==
  \A r \in Requests :
    LET e == ev[r] IN
    e.pc = "done" =>
      \A i \in CookieWrites(e) :
        LET x == e.setCookies[i].value IN
        /\ x \in DOMAIN store
        /\ Has(store[x], "id")
        /\ Get(store[x], "id") = x

\* --------------------------------------------------------------------- C19
\* regenerate() was the handler's last lifecycle call
RegeneratedLast(e) == "regenerate" \in e.opsPre /\ e.last = "regenerate"

C19_Step(r) ==
  /\ ( /\ ev[r].pc = "handling" /\ ev'[r].pc = "headers"
       /\ RegeneratedLast(ev[r]) )
     => /\ ev'[r].sessionId = ev[r].sessionId
        /\ CookieWrites(ev'[r]) # {}
        /\ LastCookie(ev'[r]).value = ev[r].sessionId
  /\ ( /\ ev[r].pc = "headers" /\ ev'[r].pc = "done"
       /\ RegeneratedLast(ev[r]) )
     => /\ ev'[r].setCalls = ev[r].setCalls + 1
        /\ ev[r].sessionId \in DOMAIN store'
        /\ store'[ev[r].sessionId] = ev[r].session

\* C19: in Init and in Active mode, the context id right after regenerate()
\* (no lifecycle call follows) is the id header-emission writes to the
\* cookie and body-completion uses as the storage key.
C19_RegenerateFinal == [][\A r \in Requests : C19_Step(r)]_vars

\* --------------------------------------------------------------------- C20
C20_Step(r) ==
  ( /\ ev[r].pc = "headers" /\ ev'[r].pc = "done"
    /\ ev'[r].setCalls > ev[r].setCalls )
  => \A k \in DOMAIN store' :
       (k \notin DOMAIN store \/ store'[k] # store[k])
       => \/ k \in ev[r].fresh
          \/ ~ev[r].isInit /\ k = ev[r].preSessionId

\* C20: every key under which a request writes a record is an id generated
\* in that request or the id of the valid record the request loaded; a
\* cookie value that matches no valid record is never the id or the storage
\* key of a session the request creates.
C20_NoClientIds == [][\A r \in Requests : C20_Step(r)]_vars

====
